---------------------------- MODULE Spec2Model ----------------------------
(***************************************************************************)
(* Model of svg_dark_mode.py: the colour inverter (hex_to_rgb, rgb_to_hex, *)
(* invert_color), the markup rewriter (add_dark_mode_attributes) and the   *)
(* batch driver (process_svg_file, process_folder).                        *)
(*                                                                         *)
(* A Python str is modelled as a sequence of one-character strings, so the *)
(* regular expressions of the source are modelled character by character.  *)
(* A call's outcome is a record [exc, val]: exc = "None" when the call     *)
(* returns val, and the exception's class name when it raises.             *)
(***************************************************************************)
EXTENDS Integers, Sequences, FiniteSets, TLC

\* ------------------------------------------------------------------ text
\* The literals of the source, as character sequences.
Quote == "\""
LitFillOpen == <<"f","i","l","l","=","\"">>
LitStyleOpen == <<"<","s","t","y","l","e",">">>
LitStyleClose == <<"<","/","s","t","y","l","e",">">>
LitFillDarkOpen == <<"f","i","l","l","-","d","a","r","k","=","\"">>
LitFillLightOpen == <<"f","i","l","l","-","l","i","g","h","t","=","\"">>
LitFillDark == <<"f","i","l","l","-","d","a","r","k">>
LitCompanionOpen == <<" ","f","i","l","l","-","d","a","r","k","=","\"">>
LitBlack == <<"b","l","a","c","k">>
LitWhite == <<"w","h","i","t","e">>
LitSvgSuffix == <<".","s","v","g">>

\* The keywords that disqualify a style block (line 98).
Keywords ==
    { <<"@","m","e","d","i","a">>, <<"f","i","l","l",":">>, <<"d","a","r","k">> }

\* Characters that the regular expression class \s and the blank-stripping
\* of int() take for whitespace.
Whitespace == {" ", "\t", "\n", "\r", "\f"}

UpperChars ==
    <<"A","B","C","D","E","F","G","H","I","J","K","L","M",
      "N","O","P","Q","R","S","T","U","V","W","X","Y","Z">>
LowerChars ==
    <<"a","b","c","d","e","f","g","h","i","j","k","l","m",
      "n","o","p","q","r","s","t","u","v","w","x","y","z">>

\* str.lower() on one character.
LowerChar(c) ==
    IF \E i \in 1..Len(UpperChars) : UpperChars[i] = c
    THEN LowerChars[CHOOSE i \in 1..Len(UpperChars) : UpperChars[i] = c]
    ELSE c

\* str.lower()
Lower(s) == [i \in 1..Len(s) |-> LowerChar(s[i])]

\* s[i:] starts with lit (positions are 1-based here).
MatchAt(s, i, lit) ==
    /\ i >= 1
    /\ i + Len(lit) - 1 <= Len(s)
    /\ \A k \in 1..Len(lit) : s[i + k - 1] = lit[k]

\* The first position >= i where lit occurs in s, 0 when there is none
\* (str.find, and the regex engine's scan for a literal).
RECURSIVE IndexFrom(_, _, _)
IndexFrom(s, lit, i) ==
    IF i + Len(lit) - 1 > Len(s) THEN 0
    ELSE IF MatchAt(s, i, lit) THEN i
    ELSE IndexFrom(s, lit, i + 1)

\* `lit in s`
Contains(s, lit) == IndexFrom(s, lit, 1) # 0

\* s[a..b], empty when b < a.
Slice(s, a, b) == IF b < a THEN <<>> ELSE SubSeq(s, a, b)

\* str.endswith
EndsWith(s, suffix) == MatchAt(s, Len(s) - Len(suffix) + 1, suffix)

\* sep.join(parts)
RECURSIVE Join(_, _)
Join(parts, sep) ==
    IF parts = <<>> THEN <<>>
    ELSE IF Len(parts) = 1 THEN parts[1]
    ELSE parts[1] \o sep \o Join(Tail(parts), sep)

\* ---------------------------------------------------------------- colours
HexDigits == <<"0","1","2","3","4","5","6","7","8","9","a","b","c","d","e","f">>

IsHexDigit(c) == \E i \in 1..Len(HexDigits) : HexDigits[i] = LowerChar(c)

HexValue(c) == (CHOOSE i \in 1..Len(HexDigits) : HexDigits[i] = LowerChar(c)) - 1

\* str.lstrip('#'): every leading '#' is dropped.
RECURSIVE LStripHash(_)
LStripHash(s) ==
    IF s # <<>> /\ Head(s) = "#" THEN LStripHash(Tail(s)) ELSE s

\* str.strip() as int() applies it before parsing.
RECURSIVE StripLeft(_)
StripLeft(s) ==
    IF s # <<>> /\ Head(s) \in Whitespace THEN StripLeft(Tail(s)) ELSE s

RECURSIVE StripRight(_)
StripRight(s) ==
    IF s # <<>> /\ s[Len(s)] \in Whitespace
    THEN StripRight(SubSeq(s, 1, Len(s) - 1)) ELSE s

\* The digits of an int() literal once blanks and the sign are removed.
IntDigits(x) ==
    LET t == StripRight(StripLeft(x))
    IN IF t # <<>> /\ t[1] \in {"+", "-"} THEN Tail(t) ELSE t

IntNegative(x) ==
    LET t == StripRight(StripLeft(x)) IN t # <<>> /\ t[1] = "-"

\* Whether int(x, 16) returns, for the slices of at most two characters that
\* hex_to_rgb passes: blanks around, an optional sign, then hex digits only
\* (a 0x prefix or an underscore needs three characters to be a literal).
IntParses(x) ==
    /\ IntDigits(x) # <<>>
    /\ \A k \in 1..Len(IntDigits(x)) : IsHexDigit(IntDigits(x)[k])

RECURSIVE DigitsValue(_)
DigitsValue(d) ==
    IF d = <<>> THEN 0
    ELSE 16 * DigitsValue(SubSeq(d, 1, Len(d) - 1)) + HexValue(d[Len(d)])

\* int(x, 16) when it parses.
IntValue(x) ==
    IF IntNegative(x) THEN 0 - DigitsValue(IntDigits(x)) ELSE DigitsValue(IntDigits(x))

HexWidth == 2
Channels == 3
MaxChannel == 255

\* hex_color[i:i+2] for i in (0, 2, 4), after the lstrip: the k-th slice.
HexSlice(color, k) ==
    LET h == LStripHash(color)
        a == HexWidth * (k - 1) + 1
        b == IF HexWidth * k <= Len(h) THEN HexWidth * k ELSE Len(h)
    IN Slice(h, a, b)

\* hex_to_rgb: ValueError when a slice is no base-16 literal.
hex_to_rgb(hex_color) ==
    IF \A k \in 1..Channels : IntParses(HexSlice(hex_color, k))
    THEN [exc |-> "None", val |-> [k \in 1..Channels |-> IntValue(HexSlice(hex_color, k))]]
    ELSE [exc |-> "ValueError", val |-> <<>>]

\* format(n, 'x') for n >= 0.
RECURSIVE HexStr(_)
HexStr(n) ==
    IF n < 16 THEN <<HexDigits[n + 1]>>
    ELSE HexStr(n \div 16) \o <<HexDigits[(n % 16) + 1]>>

\* '{:x}'.format(n): the padding forgotten.
Format02x_Unpadded(n) == HexStr(n)

\* '{:02x}'.format(n): lowercase, zero-padded to two digits, never cut.
Format02x(n) ==
    IF Len(HexStr(n)) < HexWidth THEN <<"0">> \o HexStr(n) ELSE HexStr(n)

\* rgb_to_hex
rgb_to_hex(rgb) ==
    <<"#">> \o Format02x(rgb[1]) \o Format02x(rgb[2]) \o Format02x(rgb[3])

\* color_map
color_map(name) == IF name = LitBlack THEN LitWhite ELSE LitBlack

InColorMap(name) == name \in {LitBlack, LitWhite}

\* invert_color with the name looked up as written: `if color in color_map`.
invert_color_CaseSensitive(color) ==
    IF InColorMap(color)
    THEN [exc |-> "None", val |-> color_map(color)]
    ELSE IF color # <<>> /\ color[1] = "#"
    THEN LET rgb == hex_to_rgb(color)
         IN IF rgb.exc # "None" THEN rgb
            ELSE [exc |-> "None",
                  val |-> rgb_to_hex([k \in 1..Channels |-> MaxChannel - rgb.val[k]])]
    ELSE [exc |-> "None", val |-> color]

\* invert_color
invert_color(color) ==
    IF InColorMap(Lower(color))
    THEN [exc |-> "None", val |-> color_map(Lower(color))]
    ELSE IF color # <<>> /\ color[1] = "#"
    THEN LET rgb == hex_to_rgb(color)
         IN IF rgb.exc # "None" THEN rgb
            ELSE [exc |-> "None",
                  val |-> rgb_to_hex([k \in 1..Channels |-> MaxChannel - rgb.val[k]])]
    ELSE [exc |-> "None", val |-> color]

\* ---------------------------------------------------------------- markup
Ok(text) == [exc |-> "None", val |-> text]

\* re.findall(r'<style>(.*?)</style>', s, re.DOTALL) from position i on: the
\* first <style> is paired with the first </style> after it, and the scan
\* resumes behind that match.
RECURSIVE FindStyles(_, _)
FindStyles(s, i) ==
    LET p == IndexFrom(s, LitStyleOpen, i)
        q == IF p = 0 THEN 0 ELSE IndexFrom(s, LitStyleClose, p + Len(LitStyleOpen))
    IN IF q = 0 THEN <<>>
       ELSE <<Slice(s, p + Len(LitStyleOpen), q - 1)>>
            \o FindStyles(s, q + Len(LitStyleClose))

\* existing_styles (line 93)
existing_styles(svg_text) == FindStyles(svg_text, 1)

\* The test of line 98: the block holds none of the keywords, whatever the case.
Preservable(style) == \A kw \in Keywords : ~Contains(Lower(style), kw)

\* preserved_styles (lines 94-99)
preserved_styles(svg_text) == SelectSeq(existing_styles(svg_text), Preservable)

\* re.sub(r'<style>(.*?)</style>', '', s, flags=re.DOTALL) from position i on:
\* one pass, what the removals leave is not scanned again.
RECURSIVE RemoveStyles(_, _)
RemoveStyles(s, i) ==
    LET p == IndexFrom(s, LitStyleOpen, i)
        q == IF p = 0 THEN 0 ELSE IndexFrom(s, LitStyleClose, p + Len(LitStyleOpen))
    IN IF q = 0 THEN Slice(s, i, Len(s))
       ELSE Slice(s, i, p - 1) \o RemoveStyles(s, q + Len(LitStyleClose))

\* re.sub(open + r'[^"]*"', '', s) from position i on, for open = fill-dark="
\* and fill-light=": the attribute goes, the blank before it stays.
RECURSIVE StripAttribute(_, _, _)
StripAttribute(s, open, i) ==
    LET p == IndexFrom(s, open, i)
        q == IF p = 0 THEN 0 ELSE IndexFrom(s, <<Quote>>, p + Len(open))
    IN IF q = 0 THEN Slice(s, i, Len(s))
       ELSE Slice(s, i, p - 1) \o StripAttribute(s, open, q + 1)

\* content after lines 102-106.
StrippedContent(svg_text) ==
    StripAttribute(StripAttribute(RemoveStyles(svg_text, 1), LitFillDarkOpen, 1),
                   LitFillLightOpen, 1)

\* The first position >= j that holds no whitespace (Len(s) + 1 at the end).
RECURSIVE SkipSpaces(_, _)
SkipSpaces(s, j) ==
    IF j <= Len(s) /\ s[j] \in Whitespace THEN SkipSpaces(s, j + 1) ELSE j

\* The lookahead \s+fill-dark at position j.
FollowedByCompanion(s, j) ==
    /\ SkipSpaces(s, j) > j
    /\ MatchAt(s, SkipSpaces(s, j), LitFillDark)

\* replace_fill (lines 109-112)
replace_fill(fill) ==
    LET dark_fill == invert_color(fill)
    IN IF dark_fill.exc # "None" THEN dark_fill
       ELSE Ok(LitFillOpen \o fill \o <<Quote>> \o LitCompanionOpen
               \o dark_fill.val \o <<Quote>>)

\* re.sub(r'fill="([^"]*)"(?!\s+fill-dark)', replace_fill, s) from position i
\* on (line 115). Where the lookahead refuses a fill="v", the scan resumes one
\* character further; an exception of replace_fill ends the substitution.
RECURSIVE RewriteFills(_, _)
RewriteFills(s, i) ==
    LET p == IndexFrom(s, LitFillOpen, i)
        q == IF p = 0 THEN 0 ELSE IndexFrom(s, <<Quote>>, p + Len(LitFillOpen))
    IN IF q = 0 THEN Ok(Slice(s, i, Len(s)))
       ELSE IF FollowedByCompanion(s, q + 1)
       THEN LET rest == RewriteFills(s, p + 1)
            IN IF rest.exc # "None" THEN rest
               ELSE Ok(Slice(s, i, p) \o rest.val)
       ELSE LET new == replace_fill(Slice(s, p + Len(LitFillOpen), q - 1))
            IN IF new.exc # "None" THEN new
               ELSE LET rest == RewriteFills(s, q + 1)
                    IN IF rest.exc # "None" THEN rest
                       ELSE Ok(Slice(s, i, p - 1) \o new.val \o rest.val)

\* content after line 115, or the exception raised there.
RewrittenContent(svg_text) == RewriteFills(StrippedContent(svg_text), 1)

\* Lines 119-121 without the test of line 118: a style element is inserted
\* even when no block was kept.
ReinsertStyles_Always(text, styles) ==
    LET style_block == LitStyleOpen \o Join(styles, <<" ">>) \o LitStyleClose
        svg_end == IndexFrom(text, <<">">>, 1)
    IN Slice(text, 1, svg_end) \o style_block \o Slice(text, svg_end + 1, Len(text))

\* Lines 118-121: str.find gives -1 when there is no '>', so the block then
\* goes to the very front.
ReinsertStyles(text, styles) ==
    IF styles = <<>> THEN text
    ELSE LET style_block == LitStyleOpen \o Join(styles, <<" ">>) \o LitStyleClose
             svg_end == IndexFrom(text, <<">">>, 1)
         IN Slice(text, 1, svg_end) \o style_block \o Slice(text, svg_end + 1, Len(text))

\* add_dark_mode_attributes
add_dark_mode_attributes(svg_text) ==
    LET rewritten == RewrittenContent(svg_text)
    IN IF rewritten.exc # "None" THEN rewritten
       ELSE Ok(ReinsertStyles(rewritten.val, preserved_styles(svg_text)))


\* ----------------------------------------------------------------- state
VARIABLES
    svg_content,    \* the text given to add_dark_mode_attributes
    once,           \* the outcome of add_dark_mode_attributes(svg_content)
    twice,          \* the outcome of applying it again to what it returned
    color,          \* the value given to invert_color
    inverted,       \* the outcome of invert_color(color)
    reinverted,     \* the outcome of invert_color on what it returned
    is_dir,         \* os.path.isdir(source_folder)
    listing,        \* os.listdir(source_folder), in the order it yields
    fpc,            \* where process_folder is: start, loop, done, raised
    idx,            \* the position of the loop of line 191 in listing
    makedirs_called,\* os.makedirs(dest_folder) has been called
    attempted,      \* the filenames process_svg_file was called on, in order
    written,        \* the <<filename, text>> pairs written to dest_folder
    errors,         \* errors (line 190): <<filename, exception>> pairs
    raised          \* what process_folder raised: [type, failed]

annotateVars == <<svg_content, once, twice>>
colorVars == <<color, inverted, reinverted>>
folderVars ==
    <<is_dir, listing, fpc, idx, makedirs_called, attempted, written, errors, raised>>
vars == <<annotateVars, colorVars, folderVars>>

\* No call made yet.
Pending == [exc |-> "Pending", val |-> <<>>]

Returned(outcome) == outcome.exc = "None"
Raised(outcome) == outcome.exc \notin {"None", "Pending"}

\* ---------------------------------------------------------------- inputs
MaxFrags == 3

FillAttr(v) == LitFillOpen \o v \o <<Quote>>
StyleBlock(inner) == LitStyleOpen \o inner \o LitStyleClose

TxtDark == <<"d","a","r","k">>
TxtRule == <<".","a","{","}">>
HexBlack == <<"#","0","0","0","0","0","0">>
HexWhite == <<"#","F","F","F","F","F","F">>
TagOpen == <<"<","p","a","t","h"," ">>
TagEnd == <<"/",">">>

\* Pieces of markup the input documents are put together from: whole and
\* split tags, fill attributes with named, hex and malformed values, a
\* companion attribute in two halves, kept and dropped style blocks.
Fragments ==
    { <<"<","s","v","g",">">>,
      FillAttr(<<"r","e","d">>),
      FillAttr(<<"#","F","F","F">>),
      FillAttr(HexBlack),
      FillAttr(HexWhite),
      FillAttr(<<"B","l","a","c","k">>),
      <<" ">> \o LitFillDark,
      <<"=", Quote, "x", Quote>>,
      StyleBlock(TxtRule),
      StyleBlock(TxtDark),
      <<"<","s","t","y">>,
      <<"l","e",">">> \o TxtDark \o LitStyleClose }

\* The documents of the tests and of the docstring (tests lines 131, 155,
\* 137-140; source line 83).
InvalidSvg == <<"<","n","o","t","-","v","a","l","i","d","-","s","v","g",">">>
HexSvg == TagOpen \o FillAttr(HexBlack) \o TagEnd \o TagOpen \o FillAttr(HexWhite) \o TagEnd
DocSvg == TagOpen \o FillAttr(HexBlack) \o TagEnd
SvgWithStyle ==
    <<"<","s","v","g",">","\n">>
    \o StyleBlock(<<".","e","x","i","s","t","i","n","g","{","c","o","l","o","r",":","b","l","u","e","}">>)
    \o <<"\n">> \o TagOpen \o FillAttr(LitBlack) \o <<" ","d","=",Quote,"M","0",Quote>> \o TagEnd
    \o <<"\n","<","/","s","v","g",">">>

KnownInputs == {InvalidSvg, HexSvg, DocSvg, SvgWithStyle}

\* Every concatenation of at most n fragments.
RECURSIVE Concats(_)
Concats(n) ==
    IF n = 0 THEN {<<>>}
    ELSE LET shorter == Concats(n - 1)
         IN shorter \cup {a \o f : a \in shorter, f \in Fragments}

Inputs == Concats(MaxFrags) \cup KnownInputs

\* Hex digits the sampled colours are written with, in both cases.
SampleDigits == {"0", "9", "a", "F"}

HexColors ==
    { <<"#", a, b, c, d, e, f>> :
        a \in SampleDigits, b \in SampleDigits, c \in SampleDigits,
        d \in SampleDigits, e \in SampleDigits, f \in SampleDigits }

OtherColors ==
    { LitBlack, LitWhite, <<"B","l","a","c","k">>, <<"W","H","I","T","E">>,
      <<"r","e","d">>, <<>>, <<"#","F","F","F">>, <<"#","G","G","G","G","G","G">>,
      <<"#","-","1","-","1","-","1">>, <<"#","#","0","a","0","B","1","c">> }

Colors == HexColors \cup OtherColors

\* ------------------------------------------------------------ the rewriter
\* The parts of the state a specification leaves alone.
AnnotateIdle == svg_content = <<>> /\ once = Pending /\ twice = Pending
ColorIdle == color = <<>> /\ inverted = Pending /\ reinverted = Pending
NothingRaised == [type |-> "None", failed |-> 0]
FolderIdle ==
    /\ is_dir = FALSE
    /\ listing = <<>>
    /\ fpc = "start"
    /\ idx = 1
    /\ makedirs_called = FALSE
    /\ attempted = <<>>
    /\ written = {}
    /\ errors = <<>>
    /\ raised = NothingRaised

Init ==
    /\ svg_content \in Inputs
    /\ once = Pending
    /\ twice = Pending
    /\ ColorIdle
    /\ FolderIdle

\* A call of add_dark_mode_attributes on the document.
Annotate ==
    /\ once = Pending
    /\ once' = add_dark_mode_attributes(svg_content)
    /\ UNCHANGED <<svg_content, twice, colorVars, folderVars>>

\* A second call, on the text the first one returned.
AnnotateAgain ==
    /\ Returned(once)
    /\ twice = Pending
    /\ twice' = add_dark_mode_attributes(once.val)
    /\ UNCHANGED <<svg_content, once, colorVars, folderVars>>

Next == Annotate \/ AnnotateAgain

Spec == Init /\ [][Next]_vars

\* ------------------------------------------------------------ the inverter
InitColor ==
    /\ color \in Colors
    /\ inverted = Pending
    /\ reinverted = Pending
    /\ AnnotateIdle
    /\ FolderIdle

\* A call of invert_color on the colour.
Invert ==
    /\ inverted = Pending
    /\ inverted' = invert_color(color)
    /\ UNCHANGED <<color, reinverted, annotateVars, folderVars>>

\* A second call, on the colour the first one returned.
InvertAgain ==
    /\ Returned(inverted)
    /\ reinverted = Pending
    /\ reinverted' = invert_color(inverted.val)
    /\ UNCHANGED <<color, inverted, annotateVars, folderVars>>

NextColor == Invert \/ InvertAgain

SpecColor == InitColor /\ [][NextColor]_vars


\* --------------------------------------------------------- the batch driver
MaxFiles == 3

\* Directory entries: two that end in .svg, one with another suffix, one
\* whose suffix differs in case.
FileNames ==
    { <<"a">> \o LitSvgSuffix, <<"b">> \o LitSvgSuffix,
      <<"n",".","t","x","t">>, <<"c",".","S","V","G">> }

\* The duplicate-free sequences of at most n of the names.
RECURSIVE Listings(_)
Listings(n) ==
    IF n = 0 THEN {<<>>}
    ELSE LET shorter == Listings(n - 1)
         IN shorter \cup
            UNION { { Append(l, f) : f \in FileNames \ {l[k] : k \in 1..Len(l)} } :
                    l \in shorter }

\* What a source file may hold.
FileTexts ==
    { TagOpen \o FillAttr(LitBlack) \o TagEnd,
      TagOpen \o FillAttr(<<"#","F","F","F">>) \o TagEnd,
      InvalidSvg }

\* What open()/read() of the source does: raise, or give the text.
SourceFiles ==
    { [read |-> "IOError", text |-> <<>>],
      [read |-> "UnicodeDecodeError", text |-> <<>>] }
    \cup { [read |-> "None", text |-> x] : x \in FileTexts }

\* What open(dest_path, "w") does.
DestOutcomes == {"None", "IOError"}

\* process_svg_file (lines 145-164): the handlers only print and re-raise, so
\* the first exception of the body is the call's outcome, and the text is
\* written only when nothing was raised before line 155.
process_svg_file(source, dest) ==
    IF source.read # "None" THEN [exc |-> source.read, val |-> <<>>]
    ELSE LET modified_svg == add_dark_mode_attributes(source.text)
         IN IF modified_svg.exc # "None" THEN modified_svg
            ELSE IF dest # "None" THEN [exc |-> dest, val |-> <<>>]
            ELSE modified_svg

\* The except clause of line 198.
Caught(exc) == exc \in {"IOError", "UnicodeDecodeError"}

InitFolder ==
    /\ is_dir \in BOOLEAN
    /\ listing \in (IF is_dir THEN Listings(MaxFiles) ELSE {<<>>})
    /\ fpc = "start"
    /\ idx = 1
    /\ makedirs_called = FALSE
    /\ attempted = <<>>
    /\ written = {}
    /\ errors = <<>>
    /\ raised = NothingRaised
    /\ AnnotateIdle
    /\ ColorIdle

\* Lines 184-188 with os.makedirs moved before the check of the source path.
CheckSource_MakedirsFirst ==
    /\ fpc = "start"
    /\ makedirs_called' = TRUE
    /\ \/ /\ is_dir
          /\ fpc' = "loop"
          /\ UNCHANGED raised
       \/ /\ is_dir
          /\ fpc' = "raised"
          /\ raised' = [type |-> "OSError", failed |-> 0]
       \/ /\ ~is_dir
          /\ fpc' = "raised"
          /\ raised' = [type |-> "ValueError", failed |-> 0]
    /\ UNCHANGED <<is_dir, listing, idx, attempted, written, errors>>
    /\ UNCHANGED <<annotateVars, colorVars>>

\* Lines 184-188: the check of the source path, then os.makedirs, which may
\* itself raise OSError.
CheckSource ==
    /\ fpc = "start"
    /\ IF ~is_dir
       THEN /\ fpc' = "raised"
            /\ raised' = [type |-> "ValueError", failed |-> 0]
            /\ UNCHANGED makedirs_called
       ELSE /\ makedirs_called' = TRUE
            /\ \/ fpc' = "loop" /\ UNCHANGED raised
               \/ fpc' = "raised" /\ raised' = [type |-> "OSError", failed |-> 0]
    /\ UNCHANGED <<is_dir, listing, idx, attempted, written, errors>>
    /\ UNCHANGED <<annotateVars, colorVars>>

\* One round of the loop of lines 191-200 on an entry that does not end in
\* .svg: it is passed over.
SkipEntry ==
    /\ fpc = "loop"
    /\ idx <= Len(listing)
    /\ ~EndsWith(listing[idx], LitSvgSuffix)
    /\ idx' = idx + 1
    /\ UNCHANGED <<is_dir, listing, fpc, makedirs_called, attempted, written, errors, raised>>
    /\ UNCHANGED <<annotateVars, colorVars>>

\* One round of the loop on an entry that ends in .svg: process_svg_file is
\* called; IOError and UnicodeDecodeError are collected, any other exception
\* leaves process_folder at once.
ProcessEntry ==
    /\ fpc = "loop"
    /\ idx <= Len(listing)
    /\ EndsWith(listing[idx], LitSvgSuffix)
    /\ \E source \in SourceFiles, dest \in DestOutcomes :
         \E outcome \in {process_svg_file(source, dest)} :
            /\ attempted' = Append(attempted, listing[idx])
            /\ IF outcome.exc = "None"
               THEN /\ written' = written \cup {<<listing[idx], outcome.val>>}
                    /\ idx' = idx + 1
                    /\ UNCHANGED <<errors, fpc, raised>>
               ELSE IF Caught(outcome.exc)
               THEN /\ errors' = Append(errors, <<listing[idx], outcome.exc>>)
                    /\ idx' = idx + 1
                    /\ UNCHANGED <<written, fpc, raised>>
               ELSE /\ fpc' = "raised"
                    /\ raised' = [type |-> outcome.exc, failed |-> 0]
                    /\ UNCHANGED <<written, errors, idx>>
    /\ UNCHANGED <<is_dir, listing, makedirs_called>>
    /\ UNCHANGED <<annotateVars, colorVars>>

\* Lines 202-206, once the listing is exhausted: the aggregate ValueError
\* with len(errors), or a normal return.
Finish ==
    /\ fpc = "loop"
    /\ idx > Len(listing)
    /\ IF errors # <<>>
       THEN /\ fpc' = "raised"
            /\ raised' = [type |-> "ValueError", failed |-> Len(errors)]
       ELSE /\ fpc' = "done"
            /\ UNCHANGED raised
    /\ UNCHANGED <<is_dir, listing, idx, makedirs_called, attempted, written, errors>>
    /\ UNCHANGED <<annotateVars, colorVars>>

NextFolder == CheckSource \/ SkipEntry \/ ProcessEntry \/ Finish

SpecFolder == InitFolder /\ [][NextFolder]_vars


\* ------------------------------------------------------------------ claims
\* What the claims call a 6-hex-digit colour: '#' and six hex digits.
HexLen == 6
IsHex6(v) ==
    /\ Len(v) = HexLen + 1
    /\ v[1] = "#"
    /\ \A k \in 2..Len(v) : IsHexDigit(v[k])

\* The dark counterpart the claims state for v: white for black and black for
\* white whatever the case, every digit of a 6-hex-digit colour replaced by
\* its complement to f (255 - 16a - b = 16(15 - a) + (15 - b)), in lowercase,
\* and v itself for any other name.
ClaimedDark(v) ==
    IF Lower(v) = LitBlack THEN LitWhite
    ELSE IF Lower(v) = LitWhite THEN LitBlack
    ELSE IF IsHex6(v)
    THEN <<"#">> \o [k \in 1..HexLen |-> HexDigits[Len(HexDigits) - HexValue(v[k + 1])]]
    ELSE v

\* d is the companion value the claims state for v; they state none for a
\* value that starts with '#' without being a 6-hex-digit colour.
DarkAsClaimed(v, d) ==
    IF v # <<>> /\ v[1] = "#" /\ ~IsHex6(v) THEN TRUE ELSE d = ClaimedDark(v)

\* C1: add_dark_mode_attributes is idempotent: a second application returns
\* the text of the first, character for character.
C1_Idempotent == (Returned(once) /\ twice # Pending) => twice = once

\* C2: add_dark_mode_attributes never raises, whatever the text.
C2_NeverRaises == ~Raised(once)

\* Reading text from position i on, every fill="v" is immediately followed by
\* one space and fill-dark="d", d being the counterpart claimed for v; the
\* reading resumes behind the companion.
RECURSIVE EveryFillAnnotated(_, _)
EveryFillAnnotated(text, i) ==
    LET p == IndexFrom(text, LitFillOpen, i)
        q == IF p = 0 THEN 0 ELSE IndexFrom(text, <<Quote>>, p + Len(LitFillOpen))
        dstart == q + 1 + Len(LitCompanionOpen)
        dq == IndexFrom(text, <<Quote>>, dstart)
    IN IF q = 0 THEN TRUE
       ELSE /\ MatchAt(text, q + 1, LitCompanionOpen)
            /\ dq # 0
            /\ DarkAsClaimed(Slice(text, p + Len(LitFillOpen), q - 1),
                             Slice(text, dstart, dq - 1))
            /\ EveryFillAnnotated(text, dq + 1)

LeftAlone(text, j) ==
    \E k \in (j + 1)..Len(text) :
        /\ \A m \in j..(k - 1) : text[m] \in Whitespace
        /\ MatchAt(text, k, LitFillDark)

\* new, from position j on, is old, from position i on, with every fill="v"
\* met when reading left to right replaced by fill="v" fill-dark="d", v
\* verbatim and d the claimed counterpart, but for those that LeftAlone
\* exempts, which are kept as they are (the reading resumes one character
\* further), and with everything else unchanged.
RECURSIVE RewrittenAsClaimed(_, _, _, _)
RewrittenAsClaimed(old, i, new, j) ==
    LET p == IndexFrom(old, LitFillOpen, i)
        q == IF p = 0 THEN 0 ELSE IndexFrom(old, <<Quote>>, p + Len(LitFillOpen))
        at == j + (p - i)
        dstart == at + (q - p + 1) + Len(LitCompanionOpen)
        dq == IndexFrom(new, <<Quote>>, dstart)
    IN IF q = 0 THEN Slice(new, j, Len(new)) = Slice(old, i, Len(old))
       ELSE IF LeftAlone(old, q + 1)
       THEN /\ MatchAt(new, j, Slice(old, i, p))
            /\ RewrittenAsClaimed(old, p + 1, new, at + 1)
       ELSE /\ MatchAt(new, j, Slice(old, i, q))
            /\ MatchAt(new, at + (q - p + 1), LitCompanionOpen)
            /\ dq # 0
            /\ DarkAsClaimed(Slice(old, p + Len(LitFillOpen), q - 1),
                             Slice(new, dstart, dq - 1))
            /\ RewrittenAsClaimed(old, q + 1, new, dq + 1)

TxtHexWhiteAnnotated ==
    FillAttr(HexWhite) \o LitCompanionOpen \o Lower(HexBlack) \o <<Quote>>

C4_NoDisqualifiedStyle ==
    Returned(once) =>
        \A k \in 1..Len(existing_styles(once.val)) :
            \A kw \in Keywords : ~Contains(Lower(existing_styles(once.val)[k]), kw)

\* C5: the output holds no <style> tag when no block is kept; when blocks are
\* kept it holds exactly one style element, whose inner text is the kept
\* inner texts joined by single spaces, right behind the first '>' of the
\* rewritten document (read here as: at the front when it has no '>').
C5_AtMostOneStyle ==
    Returned(once) =>
        LET kept == preserved_styles(svg_content)
            body == RewrittenContent(svg_content).val
            block == LitStyleOpen \o Join(kept, <<" ">>) \o LitStyleClose
        IN IF kept = <<>>
           THEN ~Contains(once.val, LitStyleOpen)
           ELSE /\ existing_styles(once.val) = <<Join(kept, <<" ">>)>>
                /\ MatchAt(once.val, IndexFrom(body, <<">">>, 1) + 1, block)

\* The text holds a complete fill-dark="..." or fill-light="..." attribute.
HasCompanionAttribute(text) ==
    \E p \in 1..Len(text) :
        \/ /\ MatchAt(text, p, LitFillDarkOpen)
           /\ \E q \in (p + Len(LitFillDarkOpen))..Len(text) : text[q] = Quote
        \/ /\ MatchAt(text, p, LitFillLightOpen)
           /\ \E q \in (p + Len(LitFillLightOpen))..Len(text) : text[q] = Quote

\* The text holds a <style>, and a </style> behind it.
HasStyleBlock(text) ==
    \E p \in 1..Len(text), q \in 1..Len(text) :
        /\ MatchAt(text, p, LitStyleOpen)
        /\ q >= p + Len(LitStyleOpen)
        /\ MatchAt(text, q, LitStyleClose)

LitFillEq == <<"f","i","l","l","=">>

\* C6 as stated: a text with no fill= and no style block is returned exactly.
C6_NoFillNoStyleUnchanged ==
    (once # Pending /\ ~Contains(svg_content, LitFillEq) /\ ~HasStyleBlock(svg_content))
        => once = Ok(svg_content)

\* C6 as amended: a text with no fill=, no complete fill-dark="..." or
\* fill-light="..." attribute and no style block is returned exactly.
C6_PlainTextUnchanged ==
    (/\ once # Pending
     /\ ~Contains(svg_content, LitFillEq)
     /\ ~HasCompanionAttribute(svg_content)
     /\ ~HasStyleBlock(svg_content))
        => once = Ok(svg_content)

\* C6 witness: the document of test_invalid_svg_content came back unchanged.
C6_Witness ==
    /\ svg_content = InvalidSvg
    /\ ~Contains(svg_content, LitFillEq)
    /\ ~HasCompanionAttribute(svg_content)
    /\ ~HasStyleBlock(svg_content)
    /\ once = Ok(InvalidSvg)

\* C7 as stated: inverting a 6-hex-digit colour twice gives it back, in
\* either case of the digits.
C7_DoubleInversion ==
    (IsHex6(color) /\ reinverted # Pending) => reinverted = Ok(color)

\* C7 as amended: inverting a 6-hex-digit colour twice gives the colour with
\* its digits in lowercase (the colour itself when it has no uppercase digit).
C7_DoubleInversionLowercases ==
    (IsHex6(color) /\ reinverted # Pending) => reinverted = Ok(Lower(color))

\* C7 witness: a colour with digits of both cases was inverted twice.
C7_Witness ==
    /\ color = <<"#","0","9","a","F","F","a">>
    /\ inverted = Ok(<<"#","f","6","5","0","0","5">>)
    /\ reinverted = Ok(<<"#","0","9","a","f","f","a">>)

IsSvgName(filename) == EndsWith(filename, LitSvgSuffix)

\* C8: once process_folder has entered its loop and ended, every entry that
\* ends in .svg was attempted, in order; it raised exactly when a file
\* failed, and then the aggregate ValueError with the number of failed files.
C8_EveryFileAttempted ==
    (fpc \in {"done", "raised"} /\ is_dir /\ raised.type # "OSError") =>
        /\ attempted = SelectSeq(listing, IsSvgName)
        /\ (fpc = "raised") <=> (Cardinality({k \in 1..Len(attempted) :
                                    \A w \in written : w[1] # attempted[k]}) > 0)
        /\ fpc = "raised" =>
             /\ raised.type = "ValueError"
             /\ raised.failed = Cardinality({k \in 1..Len(attempted) :
                                    \A w \in written : w[1] # attempted[k]})

\* C9: when the source path is no directory, process_folder raises ValueError
\* and nothing is touched: no file read, no destination directory made, no
\* output written.
C9_InvalidSourceTouchesNothing ==
    ~is_dir =>
        /\ attempted = <<>>
        /\ ~makedirs_called
        /\ written = {}
        /\ errors = <<>>
        /\ fpc \in {"start", "raised"}
        /\ fpc = "raised" => raised = [type |-> "ValueError", failed |-> 0]

\* C9 witness: process_folder has raised on a source that is no directory.
C9_Witness == ~is_dir /\ fpc = "raised" /\ raised.type = "ValueError"

\* C10: for the document of test_hex_color_conversion, the output holds
\* fill="black" fill-dark="white" and fill="white" fill-dark="black".
C10_HexRenderedAsNames ==
    (svg_content = HexSvg /\ Returned(once)) =>
        /\ Contains(once.val, FillAttr(LitBlack) \o LitCompanionOpen \o LitWhite \o <<Quote>>)
        /\ Contains(once.val, FillAttr(LitWhite) \o LitCompanionOpen \o LitBlack \o <<Quote>>)


=============================================================================
